---- MODULE Spec2Model ----
(***************************************************************************)
(* Model of the training harness of train.py: the LightningModule myTrain  *)
(* (metric accumulators, report formatter `output`, the phase hooks, the   *)
(* embedded test pass) driven by the Trainer configured in __main__.       *)
(*                                                                         *)
(* Metric values are exact fractions <<num, den>> in lowest terms.         *)
(* A torchmetrics metric object is modelled by the state it accumulates,   *)
(* a confusion matrix conf[target][pred] of pixel counts.                  *)
(***************************************************************************)
EXTENDS Integers, Sequences, FiniteSets, TLC

VARIABLES
    pc,               \* position of the Trainer's fit loop
    current_epoch,    \* self.current_epoch
    sanity_checking,  \* trainer.sanity_checking
    batch_idx,        \* batches of the running phase already consumed
    w,                \* weights of self.net
    test_loader,      \* self.test_loader
    tr, val, test,    \* the three groups of five metric objects
    test_max_f1,      \* self.test_max_f1
    files,            \* contents of the report files, one record per append
    console,          \* tables printed to the console, by mode
    logged,           \* epoch-level signals emitted by the hook that ran last
    process,          \* which process of the run this is: 1, or a resumed one
    b1, b2,           \* two batches of the accumulator harness
    acc12, acc21,     \* accumulators fed b1,b2 and b2,b1
    mpc               \* position of the accumulator harness

vars == <<pc, current_epoch, sanity_checking, batch_idx, w, test_loader,
          tr, val, test, test_max_f1, files, console, logged, process,
          b1, b2, acc12, acc21, mpc>>

runVars == <<pc, current_epoch, sanity_checking, batch_idx, w, test_loader,
             tr, val, test, test_max_f1, files, console, logged, process>>

harnessVars == <<b1, b2, acc12, acc21, mpc>>

----------------------------------------------------------------------------
(* Bounds of the model *)

MaxEpochs == 4          \* cfg.epoch
TrainBatches == 1       \* len(train_dataloader())
ValBatches == 3         \* len(val_dataloader())
TestBatches == 1        \* len(self.test_loader)
PixelsPerBatch == 3     \* pixels of one batch of a loader
MaxPixelsB1 == 4        \* longest first batch of the accumulator harness
MaxPixelsB2 == 2        \* longest second batch of the accumulator harness

(* Program constants *)

NumSanityValSteps == 2  \* Trainer(num_sanity_val_steps = 2)
ChangeClass == 1        \* metrics[2][1]: the change class

Classes == {0, 1}       \* binary change detection: unchanged, changed
Inputs == {0, 1}        \* distinct pixel inputs (imgA, imgB) of the data

----------------------------------------------------------------------------
(* Exact arithmetic on fractions *)

RECURSIVE GCD(_, _)
GCD(a, b) == IF b = 0 THEN a ELSE GCD(b, a % b)

Abs(n) == IF n < 0 THEN -n ELSE n

\* n/d in lowest terms, d > 0
Frac(n, d) ==
    LET g == GCD(Abs(n), d)
    IN  <<n \div g, d \div g>>

\* torch's division of counts: 0 where the denominator is 0
SafeDivide(n, d) == IF d = 0 THEN <<0, 1>> ELSE Frac(n, d)

\* a comparison that also takes an equal value for a new best
GreaterOrEqual(a, b) == a[1] * b[2] >= b[1] * a[2]

\* a > b on fractions
Greater(a, b) == a[1] * b[2] > b[1] * a[2]

FracAdd(a, b) == Frac(a[1] * b[2] + b[1] * a[2], a[2] * b[2])

RECURSIVE SumOver(_, _)
SumOver(f, S) ==
    IF S = {} THEN <<0, 1>>
    ELSE LET c == CHOOSE x \in S : TRUE
         IN  FracAdd(f[c], SumOver(f, S \ {c}))

\* np.mean over the per-class vector
Mean(f) ==
    LET s == SumOver(f, DOMAIN f)
    IN  Frac(s[1], s[2] * Cardinality(DOMAIN f))

----------------------------------------------------------------------------
(* One torchmetrics metric object: state, update, compute, reset *)

\* reset(): no pixel counted
EmptyConf == [t \in Classes |-> [p \in Classes |-> 0]]

\* a batch after argmax: predicted labels and mask, pixel by pixel
RECURSIVE UpdateFrom(_, _, _, _)
UpdateFrom(conf, pred, mask, i) ==
    IF i > Len(pred) THEN conf
    ELSE UpdateFrom([conf EXCEPT ![mask[i]][pred[i]] = @ + 1], pred, mask, i + 1)

\* a metric that keeps only the batch it saw last
UpdateOverwrite(conf, pred, mask) == UpdateFrom(EmptyConf, pred, mask, 1)

\* a metric called as metric(mask, pred)
UpdateSwapped(conf, pred, mask) == UpdateFrom(conf, mask, pred, 1)

\* metric(pred, mask): adds the batch's pixels to the running counts
Update(conf, pred, mask) == UpdateFrom(conf, pred, mask, 1)

TP(conf, c) == conf[c][c]
FP(conf, c) == LET S == Classes \ {c} IN SumOver([t \in S |-> <<conf[t][c], 1>>], S)[1]
FN(conf, c) == LET S == Classes \ {c} IN SumOver([p \in S |-> <<conf[c][p], 1>>], S)[1]
Total(conf) ==
    LET S == Classes \X Classes
    IN  SumOver([tp \in S |-> <<conf[tp[1]][tp[2]], 1>>], S)[1]
Correct(conf) == SumOver([c \in Classes |-> <<conf[c][c], 1>>], Classes)[1]

\* Accuracy(**metric_cfg1).compute(): overall accuracy, all pixels pooled
ComputeOA(conf) == SafeDivide(Correct(conf), Total(conf))

\* Precision(**metric_cfg2).compute(): per class
ComputePrecision(conf) ==
    [c \in Classes |-> SafeDivide(TP(conf, c), TP(conf, c) + FP(conf, c))]

\* Recall(**metric_cfg2).compute(): per class
ComputeRecall(conf) ==
    [c \in Classes |-> SafeDivide(TP(conf, c), TP(conf, c) + FN(conf, c))]

\* F1Score(**metric_cfg2).compute(): per class
ComputeF1(conf) ==
    [c \in Classes |->
        SafeDivide(2 * TP(conf, c), 2 * TP(conf, c) + FP(conf, c) + FN(conf, c))]

\* JaccardIndex(**metric_cfg2).compute(): per class
ComputeIoU(conf) ==
    [c \in Classes |->
        SafeDivide(TP(conf, c), TP(conf, c) + FP(conf, c) + FN(conf, c))]

----------------------------------------------------------------------------
(* The five metric objects of one phase *)

MetricNames == {"oa", "prec", "recall", "f1", "iou"}

\* the five objects as __init__ constructs them
NewMetrics == [m \in MetricNames |-> EmptyConf]

\* a phase end that leaves its five objects as they are
SkipReset(acc) == acc

\* the five reset() calls of a phase end
ResetAll(acc) == [m \in MetricNames |-> EmptyConf]

\* the five calls metric(pred, mask) of one step
UpdateAll(acc, pred, mask) == [m \in MetricNames |-> Update(acc[m], pred, mask)]

\* metrics = [prec.compute(), recall.compute(), f1.compute(), iou.compute()]
Metrics(acc) ==
    [prec   |-> ComputePrecision(acc.prec),
     recall |-> ComputeRecall(acc.recall),
     f1     |-> ComputeF1(acc.f1),
     iou    |-> ComputeIoU(acc.iou)]

\* log = {'<mode>_oa': ..., '<mode>_prec': np.mean(...), ...}
Totals(acc) ==
    [oa     |-> ComputeOA(acc.oa),
     prec   |-> Mean(Metrics(acc).prec),
     recall |-> Mean(Metrics(acc).recall),
     f1     |-> Mean(Metrics(acc).f1),
     miou   |-> Mean(Metrics(acc).iou)]

----------------------------------------------------------------------------
(* Data and network *)

\* pixel k of the data: its input and its label
PixelX(k) == k % Cardinality(Inputs)
PixelY(k) == (k \div Cardinality(Inputs)) % Cardinality(Classes)

\* a loader of n batches of PixelsPerBatch pixels, its first pixel being `first`
Loader(first, n) ==
    [i \in 1..n |->
        [x    |-> [j \in 1..PixelsPerBatch |->
                      PixelX(first + (i - 1) * PixelsPerBatch + j - 1)],
         mask |-> [j \in 1..PixelsPerBatch |->
                      PixelY(first + (i - 1) * PixelsPerBatch + j - 1)]]]

\* build_dataloader(cfg.dataset_config, mode='train')
TrainLoader == Loader(0, TrainBatches)

\* build_dataloader(cfg.dataset_config, mode='val')
ValLoader == Loader(1, ValBatches)

\* build_dataloader(cfg.dataset_config, mode='test'): one of a few data sets
TestLoaders ==
    {Loader(first, TestBatches) :
        first \in 0..(Cardinality(Inputs) * Cardinality(Classes) - 1)}

\* the weights self.net can have: a labelling of the pixel inputs
Weights == [Inputs -> Classes]

\* self(imgA, imgB).argmax(dim=1): the predicted label of every pixel
Forward(weights, x) == [j \in DOMAIN x |-> weights[x[j]]]

----------------------------------------------------------------------------
(* Report formatter: myTrain.output *)

TrainFile == "train_metrics.txt"
RestFile == "test_metrics_rest.txt"
MaxFile == "test_metrics_max.txt"
FileNames == {TrainFile, RestFile, MaxFile}

\* gating on the mean of the per-class F1 values
MeanF1Value(metrics) == Mean(metrics.f1)

\* metrics[2][1]: the F1 of the change class
ChangeF1(metrics) == metrics.f1[ChangeClass]

\* a formatter that also keeps the latest file when it writes the best file
OutputFilesBoth(metrics, mode, best) ==
    IF mode = "test"
    THEN IF Greater(ChangeF1(metrics), best) THEN {RestFile, MaxFile} ELSE {RestFile}
    ELSE {TrainFile}

\* a formatter that takes every mode but 'train' for 'test'
OutputFilesValAsTest(metrics, mode, best) ==
    IF mode # "train"
    THEN IF Greater(ChangeF1(metrics), best) THEN {MaxFile} ELSE {RestFile}
    ELSE {TrainFile}

\* file_name as the if/else on mode leaves it: the files open(file_name, "a") appends to
OutputFiles(metrics, mode, best) ==
    IF mode = "test"
    THEN IF Greater(ChangeF1(metrics), best) THEN {MaxFile} ELSE {RestFile}
    ELSE {TrainFile}

\* self.test_max_f1 after the call
OutputBest(metrics, mode, best) ==
    IF mode = "test" /\ Greater(ChangeF1(metrics), best)
    THEN ChangeF1(metrics)
    ELSE best

\* the two writes: the header line 'epoch:{}/{} {}' and the table; of the table
\* the record of a test report keeps the F1 cell of the change class row, the
\* cell the choice of the file reads
Record(metrics, mode) ==
    IF mode = "test"
    THEN [epoch |-> current_epoch, total |-> MaxEpochs, mode |-> mode,
          f1 |-> ChangeF1(metrics)]
    ELSE [epoch |-> current_epoch, total |-> MaxEpochs, mode |-> mode]

\* a formatter that prints the table in every mode
PrintedAlways(mode) == <<mode>>

\* print(mode); print(result_table), for 'val' and 'test' only
Printed(mode) == IF mode = "val" \/ mode = "test" THEN <<mode>> ELSE <<>>

Output(metrics, total_metrics, mode) ==
    /\ console' = console \o Printed(mode)
    /\ test_max_f1' = OutputBest(metrics, mode, test_max_f1)
    /\ files' = [f \in FileNames |->
                    IF f \in OutputFiles(metrics, mode, test_max_f1)
                    THEN Append(files[f], Record(metrics, mode))
                    ELSE files[f]]

----------------------------------------------------------------------------
(* The Trainer's schedule: Trainer(max_epochs, num_sanity_val_steps) and fit *)

\* validation batches of the running validation loop
ValLimit ==
    IF sanity_checking
    THEN IF NumSanityValSteps < ValBatches THEN NumSanityValSteps ELSE ValBatches
    ELSE ValBatches

\* a schedule that never validates inside the epoch
AfterTrainingNoVal == "train_end"

\* after the last training batch the validation loop runs, before the
\* training epoch end hook
AfterTraining == "val"

\* after the sanity check epoch 0 trains; in an epoch the training epoch end
\* hook follows the validation loop
AfterValidation == IF sanity_checking THEN "train" ELSE "train_end"

\* the fit loop stops at max_epochs
AfterEpoch == IF current_epoch + 1 = MaxEpochs THEN "done" ELSE "train"

----------------------------------------------------------------------------
(* Epoch-level signals: self.log(name, value, on_epoch=True) *)

LogNames(mode) ==
    IF mode = "train"
    THEN [oa |-> "tr_oa", prec |-> "tr_prec", recall |-> "tr_recall",
          f1 |-> "tr_f1", miou |-> "tr_miou", change |-> "tr_change_f1"]
    ELSE [oa |-> "val_oa", prec |-> "val_prec", recall |-> "val_recall",
          f1 |-> "val_f1", miou |-> "val_miou", change |-> "val_change_f1"]

\* the loop over log.items() and the change-class signal after it
EpochSignals(acc, mode) ==
    {<<LogNames(mode)[k], Totals(acc)[k]>> : k \in DOMAIN Totals(acc)}
        \cup {<<LogNames(mode).change, ChangeF1(Metrics(acc))>>}

\* a hook that reports the test result under the validation signal's name
TestSignalAsVal == "val_change_f1"

\* self.log('test_change_f1', res1, ...)
TestSignal == "test_change_f1"

----------------------------------------------------------------------------
(* The hooks of myTrain *)

\* myTrain.training_step, and the optimizer step that consumes its loss
TrainingStep ==
    /\ pc = "train"
    /\ batch_idx < TrainBatches
    /\ LET batch == TrainLoader[batch_idx + 1]
           pred == Forward(w, batch.x)
       IN  tr' = UpdateAll(tr, pred, batch.mask)
    /\ w' \in Weights
    /\ batch_idx' = IF batch_idx + 1 = TrainBatches THEN 0 ELSE batch_idx + 1
    /\ pc' = IF batch_idx + 1 = TrainBatches THEN AfterTraining ELSE "train"
    /\ logged' = {}
    /\ UNCHANGED <<current_epoch, sanity_checking, test_loader, val, test,
                   test_max_f1, files, console>>

\* a validation step that calls the training metric objects
ValidationStepOnTrainMetrics ==
    /\ pc = "val"
    /\ batch_idx < ValLimit
    /\ LET batch == ValLoader[batch_idx + 1]
           pred == Forward(w, batch.x)
       IN  /\ val' = UpdateAll(val, pred, batch.mask)
           /\ tr' = [tr EXCEPT !.f1 = Update(@, pred, batch.mask)]
    /\ batch_idx' = batch_idx + 1
    /\ logged' = {}
    /\ UNCHANGED <<pc, current_epoch, sanity_checking, w, test_loader, test,
                   test_max_f1, files, console>>

\* myTrain.validation_step
ValidationStep ==
    /\ pc = "val"
    /\ batch_idx < ValLimit
    /\ LET batch == ValLoader[batch_idx + 1]
           pred == Forward(w, batch.x)
       IN  val' = UpdateAll(val, pred, batch.mask)
    /\ batch_idx' = batch_idx + 1
    /\ logged' = {}
    /\ UNCHANGED <<pc, current_epoch, sanity_checking, w, test_loader, tr, test,
                   test_max_f1, files, console>>

\* myTrain.on_validation_epoch_end up to its call of self.test()
OnValidationEpochEnd ==
    /\ pc = "val"
    /\ batch_idx = ValLimit
    /\ Output(Metrics(val), Totals(val), "val")
    /\ logged' = EpochSignals(val, "val")
    /\ val' = ResetAll(val)
    /\ pc' = "test"
    /\ batch_idx' = 0
    /\ UNCHANGED <<current_epoch, sanity_checking, w, test_loader, tr, test>>

\* myTrain.test: one turn of its loop over self.test_loader
TestStep ==
    /\ pc = "test"
    /\ batch_idx < TestBatches
    /\ LET batch == test_loader[batch_idx + 1]
           pred == Forward(w, batch.x)
       IN  test' = UpdateAll(test, pred, batch.mask)
    /\ batch_idx' = batch_idx + 1
    /\ UNCHANGED <<pc, current_epoch, sanity_checking, w, test_loader, tr, val,
                   test_max_f1, files, console, logged>>

\* a test pass that reads its result after the reset
TestResultAfterReset(acc) == ChangeF1(Metrics(ResetAll(acc)))

\* return metrics_test[2][1]: computed before the five reset() calls
TestResult(acc) == ChangeF1(Metrics(acc))

\* myTrain.test after its loop, and the rest of on_validation_epoch_end
TestReturn ==
    /\ pc = "test"
    /\ batch_idx = TestBatches
    /\ Output(Metrics(test), Totals(test), "test")
    /\ test' = ResetAll(test)
    /\ logged' = logged \cup {<<TestSignal, TestResult(test)>>}
    /\ pc' = AfterValidation
    /\ sanity_checking' = FALSE
    /\ batch_idx' = 0
    /\ UNCHANGED <<current_epoch, w, test_loader, tr, val>>

\* myTrain.on_train_epoch_end
OnTrainEpochEnd ==
    /\ pc = "train_end"
    /\ Output(Metrics(tr), Totals(tr), "train")
    /\ logged' = EpochSignals(tr, "train")
    /\ tr' = ResetAll(tr)
    /\ current_epoch' = current_epoch + 1
    /\ pc' = AfterEpoch
    /\ batch_idx' = 0
    /\ UNCHANGED <<sanity_checking, w, test_loader, val, test>>

----------------------------------------------------------------------------
(* The run: model = myTrain(cfg, log_dir); trainer.fit(model) *)

\* the accumulator harness at rest
HarnessIdle ==
    /\ b1 = [pred |-> <<>>, mask |-> <<>>]
    /\ b2 = [pred |-> <<>>, mask |-> <<>>]
    /\ acc12 = NewMetrics
    /\ acc21 = NewMetrics
    /\ mpc = "idle"

\* myTrain.__init__, then fit starts with the sanity check of the validation loop
Init ==
    /\ pc = "val"
    /\ current_epoch = 0
    /\ sanity_checking = TRUE
    /\ batch_idx = 0
    /\ w \in Weights
    /\ test_loader \in TestLoaders
    /\ tr = NewMetrics
    /\ val = NewMetrics
    /\ test = NewMetrics
    /\ test_max_f1 = <<-1, 1>>
    /\ files = [f \in FileNames |-> <<>>]
    /\ console = <<>>
    /\ logged = {}
    /\ process = 1
    /\ HarnessIdle

Next ==
    \/ (TrainingStep /\ UNCHANGED <<process, harnessVars>>)
    \/ (ValidationStep /\ UNCHANGED <<process, harnessVars>>)
    \/ (OnValidationEpochEnd /\ UNCHANGED <<process, harnessVars>>)
    \/ (TestStep /\ UNCHANGED <<process, harnessVars>>)
    \/ (TestReturn /\ UNCHANGED <<process, harnessVars>>)
    \/ (OnTrainEpochEnd /\ UNCHANGED <<process, harnessVars>>)

Spec == Init /\ [][Next]_vars

----------------------------------------------------------------------------
(* A resumed run: the first process is stopped between two epochs, after
   at least one (a checkpoint exists), and a second one is started with cfg.resume_ckpt_path naming the checkpoint of that moment *)

\* a module that takes its running best from the checkpoint
StartBestRestored(saved) == saved

\* self.test_max_f1 = -1 in __init__; no hook saves or loads the field
StartBest(saved) == <<-1, 1>>

\* model = myTrain(cfg, log_dir); trainer.fit(model, ckpt_path=cfg.resume_ckpt_path):
\* the checkpoint restores the weights and the epoch, the report files are
\* still on disk, and the Trainer may or may not repeat its sanity check
Restart ==
    /\ pc = "train"
    /\ batch_idx = 0
    /\ current_epoch >= 1
    /\ process = 1
    /\ process' = process + 1
    /\ tr' = NewMetrics
    /\ val' = NewMetrics
    /\ test' = NewMetrics
    /\ test_max_f1' = StartBest(test_max_f1)
    /\ console' = <<>>
    /\ logged' = {}
    /\ sanity_checking' \in BOOLEAN
    /\ pc' = IF sanity_checking' THEN "val" ELSE "train"
    /\ UNCHANGED <<current_epoch, batch_idx, w, test_loader, files>>

NextResume ==
    \/ Next
    \/ (Restart /\ UNCHANGED harnessVars)

\* the first process, on one of the test sets
InitResume ==
    /\ Init
    /\ test_loader = Loader(Cardinality(Inputs), TestBatches)

SpecResume == InitResume /\ [][NextResume]_vars

----------------------------------------------------------------------------
(* A failing batch: self.net or self.loss raises in a step *)

\* where the fit loop stops when a step of the phase raises
FailedPc(phase) ==
    IF phase = "train" THEN "train_failed"
    ELSE IF phase = "val" THEN "val_failed" ELSE "test_failed"

\* batches the running phase has to consume
PhaseLimit ==
    IF pc = "train" THEN TrainBatches
    ELSE IF pc = "val" THEN ValLimit ELSE TestBatches

\* a harness that resets the metric objects when a step raises
AfterRaiseReset(acc) == NewMetrics

\* no try/except/finally around a step: the objects stay as the batches
\* before the failing one left them
AfterRaise(acc) == acc

\* self(imgA, imgB) or self.loss(preds, mask) raises, before the metric calls
\* of the step: the exception leaves training_step, validation_step or test
\* (and on_validation_epoch_end with it) and ends trainer.fit
Raise ==
    /\ pc \in {"train", "val", "test"}
    /\ batch_idx < PhaseLimit
    /\ pc' = FailedPc(pc)
    /\ tr' = AfterRaise(tr)
    /\ val' = AfterRaise(val)
    /\ test' = AfterRaise(test)
    /\ UNCHANGED <<current_epoch, sanity_checking, batch_idx, w, test_loader,
                   test_max_f1, files, console, logged, process>>

NextFail ==
    \/ Next
    \/ (Raise /\ UNCHANGED harnessVars)

SpecFail == Init /\ [][NextFail]_vars

----------------------------------------------------------------------------
(* Accumulator harness: one group of metric objects fed two batches, in both
   orders, from the state __init__ constructs *)

\* the batches of 1..n pixels: predicted labels and mask of the same shape
BatchesUpTo(n) ==
    UNION {{[pred |-> p, mask |-> m] :
                p \in [1..k -> Classes], m \in [1..k -> Classes]} : k \in 1..n}

\* the run at rest
RunIdle ==
    /\ pc = "off"
    /\ current_epoch = 0
    /\ sanity_checking = FALSE
    /\ batch_idx = 0
    /\ w = [x \in Inputs |-> 0]
    /\ test_loader = <<>>
    /\ tr = NewMetrics
    /\ val = NewMetrics
    /\ test = NewMetrics
    /\ test_max_f1 = <<-1, 1>>
    /\ files = [f \in FileNames |-> <<>>]
    /\ console = <<>>
    /\ logged = {}
    /\ process = 1

InitMetric ==
    /\ RunIdle
    /\ b1 \in BatchesUpTo(MaxPixelsB1)
    /\ b2 \in BatchesUpTo(MaxPixelsB2)
    /\ acc12 = NewMetrics
    /\ acc21 = NewMetrics
    /\ mpc = "start"

\* the first step of a phase: one group sees b1, the other b2
FeedFirst ==
    /\ mpc = "start"
    /\ acc12' = UpdateAll(acc12, b1.pred, b1.mask)
    /\ acc21' = UpdateAll(acc21, b2.pred, b2.mask)
    /\ mpc' = "one"
    /\ UNCHANGED <<b1, b2>>

\* the second step: each group sees the other batch
FeedSecond ==
    /\ mpc = "one"
    /\ acc12' = UpdateAll(acc12, b2.pred, b2.mask)
    /\ acc21' = UpdateAll(acc21, b1.pred, b1.mask)
    /\ mpc' = "two"
    /\ UNCHANGED <<b1, b2>>

\* the phase end's resets
FeedReset ==
    /\ mpc = "two"
    /\ acc12' = ResetAll(acc12)
    /\ acc21' = ResetAll(acc21)
    /\ mpc' = "reset"
    /\ UNCHANGED <<b1, b2>>

NextMetric ==
    \/ (FeedFirst /\ UNCHANGED runVars)
    \/ (FeedSecond /\ UNCHANGED runVars)
    \/ (FeedReset /\ UNCHANGED runVars)

SpecMetric == InitMetric /\ [][NextMetric]_vars

----------------------------------------------------------------------------
(* Observations used by the properties *)

\* how many entries of a sequence of modes, or records of a file, have the mode
CountPrinted(seq, mode) == Cardinality({i \in DOMAIN seq : seq[i] = mode})
CountMode(seq, mode) == Cardinality({i \in DOMAIN seq : seq[i].mode = mode})

\* calls of the formatter in test mode so far: each prints its table
TestEvaluations == CountPrinted(console, "test")

\* the step on which myTrain.test returns
TestReturns == pc = "test" /\ pc' # "test"

\* the test values of the epochs run so far: every test record but the one of
\* the sanity check, which is the first record of the best file
PerEpochValues ==
    {files[RestFile][i].f1 : i \in DOMAIN files[RestFile]}
        \cup {files[MaxFile][i].f1 : i \in 2..Len(files[MaxFile])}

\* the class-1 F1 of a full pass over the test loader with the given weights
RECURSIVE PassConf(_, _, _)
PassConf(weights, loader, n) ==
    IF n = 0 THEN EmptyConf
    ELSE UpdateFrom(PassConf(weights, loader, n - 1),
                    Forward(weights, loader[n].x), loader[n].mask, 1)
FullTestF1 == ComputeF1(PassConf(w, test_loader, Len(test_loader)))[ChangeClass]

----------------------------------------------------------------------------
(* C1: the report of an epoch is written to test_metrics_max.txt exactly when
   the epoch's test change-class F1 is a new running maximum of the per-epoch
   values of the run, i.e. strictly greater than the value of every earlier
   epoch (for [0.1, 0.5, 0.3, 0.7]: at epochs 0, 1 and 3, not at epoch 2). *)
C1_BestExactlyAtRunningMaxima ==
    [][(TestReturns /\ ~sanity_checking) =>
          ((files'[MaxFile] # files[MaxFile]) <=>
              \A u \in PerEpochValues : Greater(ChangeF1(Metrics(test)), u))]_vars

(* C2 as claimed: every test evaluation is appended to test_metrics_rest.txt,
   so that file holds one record per test evaluation. *)
C2_LatestHoldsEveryEvaluation == Len(files[RestFile]) = TestEvaluations

(* C2: every test-mode call of the formatter appends its report to exactly one
   file: to test_metrics_max.txt, updating the running best, when the call's
   change-class F1 exceeds the running best, and to test_metrics_rest.txt
   otherwise; the two files together hold one record per test evaluation. *)
C2_TestReportInExactlyOneFile ==
    [][/\ TestReturns =>
            LET f == ChangeF1(Metrics(test))
                r == [epoch |-> current_epoch, total |-> MaxEpochs,
                      mode |-> "test", f1 |-> f]
            IN  IF Greater(f, test_max_f1)
                THEN /\ files'[MaxFile] = Append(files[MaxFile], r)
                     /\ files'[RestFile] = files[RestFile]
                     /\ test_max_f1' = f
                ELSE /\ files'[RestFile] = Append(files[RestFile], r)
                     /\ files'[MaxFile] = files[MaxFile]
                     /\ test_max_f1' = test_max_f1
       /\ Len(files'[RestFile]) + Len(files'[MaxFile])
              = CountPrinted(console', "test")]_vars

\* both files have been written, the best file more than once
C2_Witness == Len(files[RestFile]) > 0 /\ Len(files[MaxFile]) > 1

(* C3 as claimed: no file ever receives both a training record and a
   validation record. *)
C3_TrainAndValFilesDiffer ==
    \A f \in FileNames :
        ~(CountMode(files[f], "train") > 0 /\ CountMode(files[f], "val") > 0)

(* C3: training reports and validation reports go to one and the same file,
   train_metrics.txt, one record per phase end, told apart by the mode of
   their header only; the two test files receive test records only and
   train_metrics.txt never receives a test record. *)
C3_TrainAndValShareOneFile ==
    /\ \A i \in DOMAIN files[TrainFile] : files[TrainFile][i].mode \in {"train", "val"}
    /\ \A f \in {RestFile, MaxFile} :
          \A i \in DOMAIN files[f] : files[f][i].mode = "test"
    /\ CountMode(files[TrainFile], "val") = CountPrinted(console, "val")
    /\ CountMode(files[TrainFile], "train") = current_epoch

\* train_metrics.txt holds a training record and a validation record
C3_Witness ==
    /\ CountMode(files[TrainFile], "train") > 0
    /\ CountMode(files[TrainFile], "val") > 0

\* every one of the five objects of a group has counted exactly n batches
Holds(acc, n) == \A m \in MetricNames : Total(acc[m]) = n * PixelsPerBatch

\* the values logged under a name by the hook that ran last
Logged(name) == {s[2] : s \in {t \in logged : t[1] = name}}
LoggedNext(name) == {s[2] : s \in {t \in logged' : t[1] = name}}

(* C4: whenever the first batch of a phase (training, validation, embedded
   test) is about to be fed, that phase's five metric objects are empty, in
   the sanity validation pass and after any number of epochs; so at the phase
   end they hold exactly the batches of that one phase. *)
C4_FirstBatchFindsEmptyAccumulator ==
    /\ (pc = "train" /\ batch_idx = 0) => tr = NewMetrics
    /\ (pc = "val" /\ batch_idx = 0) => val = NewMetrics
    /\ (pc = "test" /\ batch_idx = 0) => test = NewMetrics
    /\ pc = "train" => Holds(tr, batch_idx)
    /\ pc = "val" => Holds(val, batch_idx)
    /\ pc = "test" => Holds(test, batch_idx)
    /\ pc = "train_end" => Holds(tr, TrainBatches)

\* in the third epoch the embedded test is about to feed its first batch
\* while the training objects hold the epoch's batches
C4_Witness ==
    /\ current_epoch >= 2
    /\ pc = "test"
    /\ batch_idx = 0
    /\ tr # NewMetrics

C6_TestPassFollowsValidationEnd ==
    [][/\ (pc = "val" /\ pc' # "val") =>
            /\ pc' = "test" /\ batch_idx' = 0 /\ w' = w /\ test' = test
            /\ val' = NewMetrics
            /\ CountMode(files'[TrainFile], "val")
                  = CountMode(files[TrainFile], "val") + 1
            /\ Cardinality(LoggedNext("val_change_f1")) = 1
            /\ LoggedNext("test_change_f1") = {}
       /\ (pc # "test" /\ pc' = "test") => pc = "val"
       /\ (pc = "test" /\ pc' = "test") =>
            /\ w' = w /\ batch_idx < Len(test_loader)
            /\ batch_idx' = batch_idx + 1
       /\ TestReturns =>
            /\ w' = w /\ batch_idx = Len(test_loader)
            /\ pc' \in {"train", "train_end"}
            /\ LoggedNext("test_change_f1") = {FullTestF1}
            /\ LoggedNext("val_change_f1") = Logged("val_change_f1")
            /\ Cardinality(Logged("val_change_f1")) = 1]_vars

\* both signals of one validation hook, with different values
C6_Witness ==
    /\ pc = "train_end"
    /\ Logged("test_change_f1") # {}
    /\ Logged("test_change_f1") # Logged("val_change_f1")

(* C7: when myTrain.test returns, every batch of the test loader has been fed
   to each of the five test objects, exactly one report, a test report, has
   been appended, the five test objects are empty, and the returned scalar is
   the class-1 F1 over all test batches, computed before the reset. *)
C7_TestPassResult ==
    [][TestReturns =>
          /\ Holds(test, Len(test_loader))
          /\ test' = NewMetrics
          /\ \E f \in {RestFile, MaxFile} :
                /\ files'[f] = Append(files[f],
                                      [epoch |-> current_epoch, total |-> MaxEpochs,
                                       mode |-> "test", f1 |-> FullTestF1])
                /\ \A g \in FileNames \ {f} : files'[g] = files[g]
          /\ LoggedNext("test_change_f1") = {FullTestF1}]_vars

\* a test pass has returned a value that empty objects would not give
C7_Witness ==
    /\ pc = "train_end"
    /\ test = NewMetrics
    /\ \E v \in Logged("test_change_f1") : Greater(v, <<0, 1>>)

(* C8: the value compared with and stored into the running best test F1, the
   value myTrain.test returns, and the values emitted as tr_change_f1,
   val_change_f1 and test_change_f1 are the F1 of class index 1, never the
   mean F1 over the classes. *)
C8_GatingUsesChangeClassF1 ==
    [][/\ TestReturns =>
            LET f == ComputeF1(test.f1)[1]
            IN  /\ test_max_f1' = IF Greater(f, test_max_f1) THEN f ELSE test_max_f1
                /\ LoggedNext("test_change_f1") = {f}
       /\ (pc = "val" /\ pc' # "val") =>
            LoggedNext("val_change_f1") = {ComputeF1(val.f1)[1]}
       /\ (pc = "train_end" /\ pc' # "train_end") =>
            LoggedNext("tr_change_f1") = {ComputeF1(tr.f1)[1]}
       /\ test_max_f1' # test_max_f1 => TestReturns]_vars

\* a test pass is about to report a mean F1 above the running best and a
\* class-1 F1 that is not
C8_Witness ==
    /\ pc = "test"
    /\ batch_idx = TestBatches
    /\ Greater(Mean(ComputeF1(test.f1)), test_max_f1)
    /\ ~Greater(ComputeF1(test.f1)[1], test_max_f1)

----------------------------------------------------------------------------
(* Properties of the accumulator harness (SpecMetric) *)

\* the batch of the scenario: predictions [0,1,1,0], ground truth [0,1,0,0]
ScenarioBatch == [pred |-> <<0, 1, 1, 0>>, mask |-> <<0, 1, 0, 0>>]

(* C9 as claimed: after update(predicted, true) with the scenario batch,
   compute() gives OA = 3/4, class-1 precision = 1, class-1 recall = 1/2,
   class-1 F1 = 2/3 and class-1 IoU = 1/2. *)
C9_ScenarioAsClaimed ==
    (mpc = "one" /\ b1 = ScenarioBatch) =>
        /\ Totals(acc12).oa = <<3, 4>>
        /\ Metrics(acc12).prec[1] = <<1, 1>>
        /\ Metrics(acc12).recall[1] = <<1, 2>>
        /\ Metrics(acc12).f1[1] = <<2, 3>>
        /\ Metrics(acc12).iou[1] = <<1, 2>>

(* C9: after update(predicted, true) with the scenario batch, compute() gives
   OA = 3/4, class-1 precision = TP/(TP+FP) = 1/2, class-1 recall =
   TP/(TP+FN) = 1/1 = 1, class-1 F1 = 2/3 and class-1 IoU = 1/2: the batch has
   one true positive, one false positive and no false negative of class 1. *)
C9_Scenario ==
    (mpc = "one" /\ b1 = ScenarioBatch) =>
        /\ Totals(acc12).oa = <<3, 4>>
        /\ Metrics(acc12).prec[1] = <<1, 2>>
        /\ Metrics(acc12).recall[1] = <<1, 1>>
        /\ Metrics(acc12).f1[1] = <<2, 3>>
        /\ Metrics(acc12).iou[1] = <<1, 2>>
        /\ TP(acc12.prec, 1) = 1 /\ FP(acc12.prec, 1) = 1 /\ FN(acc12.prec, 1) = 0

\* the scenario batch has been fed to empty objects
C9_Witness ==
    /\ mpc = "one"
    /\ b1 = ScenarioBatch
    /\ acc12 # NewMetrics

(* C10: from empty objects, update(B1) then update(B2) and update(B2) then
   update(B1) give the same compute() results: per-class precision, recall,
   F1 and IoU, their means, and OA. *)
C10_UpdateCommutes ==
    mpc = "two" =>
        /\ Metrics(acc12) = Metrics(acc21)
        /\ Totals(acc12) = Totals(acc21)

\* two batches that alone give different class-1 F1 have been fed in both orders
C10_Witness ==
    /\ mpc = "two"
    /\ ChangeF1(Metrics(UpdateAll(NewMetrics, b1.pred, b1.mask)))
          # ChangeF1(Metrics(UpdateAll(NewMetrics, b2.pred, b2.mask)))

----------------------------------------------------------------------------
(* Properties of the run, continued *)

\* records appended so far, all files together
RECURSIVE LenSum(_, _)
LenSum(fs, S) ==
    IF S = {} THEN 0
    ELSE LET f == CHOOSE x \in S : TRUE
         IN  Len(fs[f]) + LenSum(fs, S \ {f})
TotalRecords == LenSum(files, FileNames)
TotalRecordsNext == LenSum(files', FileNames)

\* the steps on which the formatter is called in 'val' and in 'train' mode
ValidationEnds == pc = "val" /\ pc' = "test"
TrainEnds == pc = "train_end" /\ pc' \in {"train", "done"}

(* C11: the report table is printed to the console only when the formatter is
   called in validation or test mode, never in training mode; in every mode
   the call appends the report to a file. *)
C11_ConsoleOnlyValAndTest ==
    [][/\ TrainEnds =>
            console' = console /\ TotalRecordsNext = TotalRecords + 1
       /\ ValidationEnds =>
            console' = Append(console, "val") /\ TotalRecordsNext = TotalRecords + 1
       /\ TestReturns =>
            console' = Append(console, "test") /\ TotalRecordsNext = TotalRecords + 1
       /\ console' # console => (ValidationEnds \/ TestReturns)
       /\ CountPrinted(console', "train") = 0]_vars

\* a training report is on file, and only validation and test tables were printed
C11_Witness ==
    /\ CountMode(files[TrainFile], "train") > 0
    /\ CountPrinted(console, "val") > 0
    /\ CountPrinted(console, "test") > 0
    /\ Len(console) = CountPrinted(console, "val") + CountPrinted(console, "test")

\* the steps of the three loops
TrainSteps == pc = "train" /\ pc' \in {"train", "val"}
ValSteps == pc = "val" /\ pc' = "val" /\ batch_idx' # batch_idx
TestSteps == pc = "test" /\ pc' = "test" /\ batch_idx' # batch_idx

\* each of the five objects of a group has counted one batch more
FedOne(acc, accNext) ==
    \A m \in MetricNames : Total(accNext[m]) = Total(acc[m]) + PixelsPerBatch

(* C14: the three groups of metric objects are distinct and every phase
   touches its own group only: a training step updates the five training
   objects, a validation step the five validation objects, a step of the
   embedded test the five test objects, and a phase end resets its own five;
   the objects of the other two phases stay as they are. In particular the
   validation phase and the embedded test, which run before the training
   phase end, leave the training objects untouched. *)
C14_PhasesTouchOwnAccumulators ==
    [][/\ TrainSteps => (FedOne(tr, tr') /\ val' = val /\ test' = test)
       /\ ValSteps => (FedOne(val, val') /\ tr' = tr /\ test' = test)
       /\ TestSteps => (FedOne(test, test') /\ tr' = tr /\ val' = val)
       /\ TrainEnds => (tr' = NewMetrics /\ val' = val /\ test' = test)
       /\ ValidationEnds => (val' = NewMetrics /\ tr' = tr /\ test' = test)
       /\ TestReturns => (test' = NewMetrics /\ tr' = tr /\ val' = val)]_vars

\* the training phase end finds the batches of its epoch, after the
\* validation phase and the embedded test have run and reset their objects
C14_Witness ==
    /\ pc = "train_end"
    /\ Holds(tr, TrainBatches)
    /\ tr # NewMetrics
    /\ val = NewMetrics
    /\ test = NewMetrics
    /\ CountPrinted(console, "test") = current_epoch + 2

\* a < b on fractions, for the properties
Below(a, b) == a[1] * b[2] < b[1] * a[2]

\* the change-class F1 of every test report written so far
AllTestValues ==
    {files[RestFile][i].f1 : i \in DOMAIN files[RestFile]}
        \cup {files[MaxFile][i].f1 : i \in DOMAIN files[MaxFile]}

(* C15: in one process test_max_f1 is the maximum of -1 and all test
   change-class F1 values given to the formatter so far; it never decreases,
   only a test-mode call changes it, and a test evaluation whose F1 equals the
   running best leaves it unchanged and is not written to the best file. *)
C15_RunningBest ==
    /\ [](/\ test_max_f1 \in {<<-1, 1>>} \cup AllTestValues
          /\ AllTestValues # {} => test_max_f1 \in AllTestValues
          /\ \A v \in AllTestValues : ~Below(test_max_f1, v))
    /\ [][/\ ~Below(test_max_f1', test_max_f1)
          /\ test_max_f1' # test_max_f1 => TestReturns
          /\ (TestReturns /\ ComputeF1(test.f1)[1] = test_max_f1) =>
                /\ test_max_f1' = test_max_f1
                /\ files'[MaxFile] = files[MaxFile]
                /\ Len(files'[RestFile]) = Len(files[RestFile]) + 1]_vars

\* a test evaluation equal to the running best went to the other file
C15_Witness ==
    \E i \in DOMAIN files[RestFile] : files[RestFile][i].f1 = test_max_f1

(* C16: every call of the formatter appends exactly one record to exactly one
   file, so after every validation phase with its embedded test the test
   records of the two test files are as many as the validation records; and
   every epoch index e of the run has exactly one training record, one
   validation record and one test record labelled e. *)
C16_ReportAccounting ==
    LET testRecs == files[RestFile] \o files[MaxFile]
        OfEpoch(seq, mode, e) ==
            Cardinality({i \in DOMAIN seq : seq[i].mode = mode /\ seq[i].epoch = e})
    IN  /\ pc \in {"train", "train_end", "done"} =>
              Len(testRecs) = CountMode(files[TrainFile], "val")
        /\ pc = "done" =>
              \A e \in 0..(MaxEpochs - 1) :
                  /\ OfEpoch(files[TrainFile], "train", e) = 1
                  /\ OfEpoch(files[TrainFile], "val", e) = 1
                  /\ OfEpoch(testRecs, "test", e) = 1

----------------------------------------------------------------------------
(* Properties of a resumed run (SpecResume) *)

(* C12: the running best test F1 is neither saved nor restored: every process,
   the first and a resumed one, starts with test_max_f1 = -1, so its first
   test evaluation, whatever its change-class F1, is written to
   test_metrics_max.txt and becomes the running best, even when the file
   already holds a higher best written by an earlier process. *)
C12_BestRestartsWithEveryProcess ==
    [][/\ process' # process =>
            test_max_f1' = <<-1, 1>> /\ files' = files /\ console' = <<>>
       /\ (TestReturns /\ CountPrinted(console, "test") = 0) =>
            /\ test_max_f1 = <<-1, 1>>
            /\ test_max_f1' = ComputeF1(test.f1)[1]
            /\ files'[MaxFile] =
                  Append(files[MaxFile],
                         [epoch |-> current_epoch, total |-> MaxEpochs,
                          mode |-> "test", f1 |-> ComputeF1(test.f1)[1]])
            /\ files'[RestFile] = files[RestFile]]_vars

\* a resumed process has written a best below one an earlier process wrote
C12_Witness ==
    /\ process > 1
    /\ CountPrinted(console, "test") = 1
    /\ \E i \in DOMAIN files[MaxFile] :
          files[MaxFile][i].f1[1] * test_max_f1[2]
              > test_max_f1[1] * files[MaxFile][i].f1[2]

----------------------------------------------------------------------------
(* Properties of a run with a failing batch (SpecFail) *)

Failed == {"train_failed", "val_failed", "test_failed"}

(* C13: when the model or the loss raises during a batch of a training,
   validation or embedded-test phase, nothing catches or retries: the run
   stops there, no report is appended to any file, the running best test F1
   keeps its value, and the metric objects of the aborted phase keep the
   updates of the batches before the failing one (they are not reset). *)
C13_FailureAbortsThePhase ==
    [][/\ (pc \notin Failed /\ pc' \in Failed) =>
            /\ files' = files
            /\ test_max_f1' = test_max_f1
            /\ console' = console
            /\ tr' = tr /\ val' = val /\ test' = test
            /\ batch_idx' = batch_idx
            /\ pc = "train" => (pc' = "train_failed" /\ Holds(tr', batch_idx))
            /\ pc = "val" => (pc' = "val_failed" /\ Holds(val', batch_idx))
            /\ pc = "test" => (pc' = "test_failed" /\ Holds(test', batch_idx))
       /\ pc \in Failed => pc' = pc]_vars

\* a validation phase was aborted after some batches: its objects hold them
C13_Witness ==
    /\ pc = "val_failed"
    /\ batch_idx >= 1
    /\ val # NewMetrics
    /\ CountMode(files[TrainFile], "val") = current_epoch + 1

====
